---- MODULE Spec2Model ----
(***************************************************************************)
(* Model of tools/mesh_converter.py: the command-line driver, parse_mesh    *)
(* and the three line parsers, and the JSON export.                         *)
(*                                                                          *)
(* Text is modelled as sequences of one-character strings, so that strip,   *)
(* split, float(), int() and pathlib's suffixes are computed character by   *)
(* character.  A float is the exact decimal m * 10^(-e) it denotes, kept    *)
(* normalised (no trailing zero in m when e > 0), so that equal numbers are *)
(* equal values; the sign of zero is not kept.  The character set of the    *)
(* inputs leaves out exponents, "inf", "nan" and digit-group underscores.   *)
(*                                                                          *)
(* The input file is a stream: each iteration of "for line in f" yields the *)
(* next line, drawn from LinePool, or ends the loop.                        *)
(***************************************************************************)
EXTENDS Integers, Sequences, FiniteSets, TLC

\* ------------------------------------------------------------------ bounds

\* The longest input file, in lines.
MaxLines == 3

\* ------------------------------------------------------- program constants

VERT_NAME == <<"v">>
UV_NAME == <<"v", "t">>
INDICES_NAME == <<"f">>
VALID_VAR == {VERT_NAME, UV_NAME, INDICES_NAME}

\* "PrimitiveType": 4 # Triangle
TRIANGLE == 4

\* ".obj", the only suffix the driver accepts.
OBJ_SUFFIX == <<".", "o", "b", "j">>

\* --------------------------------------------------------- text primitives

\* The characters str.strip(), float() and int() treat as whitespace.
Whitespace == {" ", "\t", "\n"}

DigitChars == <<"0", "1", "2", "3", "4", "5", "6", "7", "8", "9">>

IsDigit(c) == \E i \in 1..10 : DigitChars[i] = c

DigitVal(c) == (CHOOSE i \in 1..10 : DigitChars[i] = c) - 1

RECURSIVE LStrip(_)
\* str.lstrip(): drop leading whitespace.
LStrip(s) ==
    IF s # <<>> /\ Head(s) \in Whitespace THEN LStrip(Tail(s)) ELSE s

RECURSIVE RStrip(_)
\* str.rstrip(): drop trailing whitespace.
RStrip(s) ==
    IF s # <<>> /\ s[Len(s)] \in Whitespace
    THEN RStrip(SubSeq(s, 1, Len(s) - 1))
    ELSE s

\* str.strip(): drop leading and trailing whitespace.
Strip(s) == RStrip(LStrip(s))

RECURSIVE SplitFrom(_, _, _)
\* The fields of the rest s of a string, cur being the field under way.
SplitFrom(s, sep, cur) ==
    IF s = <<>> THEN <<cur>>
    ELSE IF Head(s) = sep
         THEN <<cur>> \o SplitFrom(Tail(s), sep, <<>>)
         ELSE SplitFrom(Tail(s), sep, Append(cur, Head(s)))

\* str.split(sep) with an explicit one-character separator: n separators
\* give n + 1 fields, empty fields kept; the empty string gives [""].
Split(s, sep) == SplitFrom(s, sep, <<>>)

RECURSIVE DigitsValue(_, _)
\* The number a string of digits denotes, acc being the value so far.
DigitsValue(s, acc) ==
    IF s = <<>> THEN acc
    ELSE DigitsValue(Tail(s), 10 * acc + DigitVal(Head(s)))

AllDigits(s) == \A i \in 1..Len(s) : IsDigit(s[i])

\* A leading sign, as int() and float() read it.
HasSign(s) == s # <<>> /\ Head(s) \in {"+", "-"}
Unsigned(s) == IF HasSign(s) THEN Tail(s) ELSE s
SignOf(s) == IF s # <<>> /\ Head(s) = "-" THEN -1 ELSE 1

\* int(token): surrounding whitespace dropped, an optional sign, then one or
\* more digits; anything else raises ValueError.
ParseInt(tok) ==
    LET t == Strip(tok)
        d == Unsigned(t)
    IN  IF d # <<>> /\ AllDigits(d)
        THEN [ok |-> TRUE, val |-> SignOf(t) * DigitsValue(d, 0)]
        ELSE [ok |-> FALSE, val |-> 0]

RECURSIVE Normalise(_, _)
\* The decimal m * 10^(-e) without trailing zeros in its fraction.
Normalise(m, e) ==
    IF e > 0 /\ m % 10 = 0 THEN Normalise(m \div 10, e - 1)
    ELSE [m |-> m, e |-> e]

\* float(token): surrounding whitespace dropped, an optional sign, then
\* digits with an optional point ("1", "1.5", "1.", ".5"), at least one
\* digit in all; anything else raises ValueError.
ParseFloat(tok) ==
    LET t == Strip(tok)
        d == Unsigned(t)
        parts == Split(d, ".")
        whole == parts[1]
        frac == IF Len(parts) = 2 THEN parts[2] ELSE <<>>
        mant == DigitsValue(whole \o frac, 0)
    IN  IF /\ Len(parts) <= 2
           /\ AllDigits(whole) /\ AllDigits(frac)
           /\ whole \o frac # <<>>
        THEN [ok |-> TRUE,
              val |-> Normalise(SignOf(t) * mant, Len(frac))]
        ELSE [ok |-> FALSE, val |-> Normalise(0, 0)]

\* ------------------------------------------------------------ line parsers

\* The document tagged as a line list.
NewDocLineList ==
    [Vertices |-> <<>>, Indices |-> <<>>, UVs |-> <<>>, PrimitiveType |-> 1]

\* parse_mesh's fresh document.
NewDoc ==
    [Vertices |-> <<>>, Indices |-> <<>>, UVs |-> <<>>,
     PrimitiveType |-> TRIANGLE]

\* What a parser leaves behind: the exception it raised ("" for none) and
\* the document as it then stands.
Outcome(exc, doc) == [exc |-> exc, doc |-> doc]

RECURSIVE FloatsFrom(_, _, _, _)
\* float(pram[0]), float(pram[1]), ... in evaluation order, up to n values:
\* a missing token raises IndexError, a bad one ValueError.
FloatsFrom(pram, n, i, acc) ==
    IF i > n THEN [exc |-> "", vals |-> acc]
    ELSE IF i > Len(pram) THEN [exc |-> "IndexError", vals |-> acc]
    ELSE IF ~ParseFloat(pram[i]).ok THEN [exc |-> "ValueError", vals |-> acc]
    ELSE FloatsFrom(pram, n, i + 1, Append(acc, ParseFloat(pram[i]).val))

Floats(pram, n) == FloatsFrom(pram, n, 1, <<>>)

\* Every token of the line converted, not only the first three.
ParseVertAllTokens(pram, doc) ==
    LET r == Floats(pram, IF Len(pram) > 3 THEN Len(pram) ELSE 3)
    IN  IF r.exc # "" THEN Outcome(r.exc, doc)
        ELSE Outcome("", [doc EXCEPT !.Vertices =
                 Append(@, [X |-> r.vals[1], Y |-> r.vals[2], Z |-> r.vals[3]])])

\* A vertex line that does not convert is skipped instead of ending the run.
ParseVertLenient(pram, doc) ==
    LET r == Floats(pram, 3)
    IN  IF r.exc # "" THEN Outcome("", doc)
        ELSE Outcome("", [doc EXCEPT !.Vertices =
                 Append(@, [X |-> r.vals[1], Y |-> r.vals[2], Z |-> r.vals[3]])])

\* parse_vert: x, y, z are converted first, the append comes last.
ParseVert(pram, doc) ==
    LET r == Floats(pram, 3)
    IN  IF r.exc # "" THEN Outcome(r.exc, doc)
        ELSE Outcome("", [doc EXCEPT !.Vertices =
                 Append(@, [X |-> r.vals[1], Y |-> r.vals[2], Z |-> r.vals[3]])])

\* The UV appended to the vertices.
ParseUvIntoVertices(pram, doc) ==
    LET r == Floats(pram, 2)
    IN  IF r.exc # "" THEN Outcome(r.exc, doc)
        ELSE Outcome("", [doc EXCEPT !.Vertices =
                 Append(@, [X |-> r.vals[1], Y |-> r.vals[2]])])

\* parse_uv: u, v are converted first, the append comes last.
ParseUv(pram, doc) ==
    LET r == Floats(pram, 2)
    IN  IF r.exc # "" THEN Outcome(r.exc, doc)
        ELSE Outcome("", [doc EXCEPT !.UVs =
                 Append(@, [X |-> r.vals[1], Y |-> r.vals[2]])])

RECURSIVE ParseIndicesTwiceFrom(_, _, _)
ParseIndicesTwiceFrom(pram, i, doc) ==
    IF i > Len(pram) THEN Outcome("", doc)
    ELSE LET div == Split(pram[i], "/")
             r == ParseInt(div[1])
         IN  IF ~r.ok THEN Outcome("ValueError", doc)
             ELSE ParseIndicesTwiceFrom(pram, i + 1,
                      [doc EXCEPT !.Indices = Append(@, r.val - 2)])

\* One subtracted twice from each reference.
ParseIndicesTwice(pram, doc) == ParseIndicesTwiceFrom(pram, 1, doc)

RECURSIVE FanFrom(_, _)
\* The triangles (first, k, k + 1) of a polygon's references, from k on.
FanFrom(refs, k) ==
    IF k + 1 > Len(refs) THEN <<>>
    ELSE <<refs[1], refs[k], refs[k + 1]>> \o FanFrom(refs, k + 1)

\* A face of more than three references subdivided into a triangle fan.
ParseIndicesFan(pram, doc) ==
    LET ok == \A i \in 1..Len(pram) : ParseInt(Split(pram[i], "/")[1]).ok
        refs == [i \in 1..Len(pram) |->
                    ParseInt(Split(pram[i], "/")[1]).val - 1]
    IN  IF ~ok THEN Outcome("ValueError", doc)
        ELSE Outcome("", [doc EXCEPT !.Indices =
                 @ \o (IF Len(refs) > 3 THEN FanFrom(refs, 2) ELSE refs)])

RECURSIVE ParseIndicesFrom(_, _, _)
\* parse_indices' loop from token i on: each index is appended as soon as
\* it is converted, so a bad token leaves the earlier ones appended.
ParseIndicesFrom(pram, i, doc) ==
    IF i > Len(pram) THEN Outcome("", doc)
    ELSE LET div == Split(pram[i], "/")
             r == ParseInt(div[1])
         IN  IF ~r.ok THEN Outcome("ValueError", doc)
             ELSE ParseIndicesFrom(pram, i + 1,
                      [doc EXCEPT !.Indices = Append(@, r.val - 1)])

ParseIndices(pram, doc) == ParseIndicesFrom(pram, 1, doc)

\* The marker matched by its first character: any line that starts with
\* "v" other than a vt line is taken for a vertex line.
ParseLineByPrefix(line, doc) ==
    LET sep == Split(Strip(line), " ")
        send == Tail(sep)
    IN  IF sep[1] = <<>> \/ <<sep[1][1]>> \notin {VERT_NAME, INDICES_NAME}
        THEN Outcome("", doc)
        ELSE IF sep[1] = UV_NAME THEN ParseUv(send, doc)
        ELSE IF sep[1][1] = "v" THEN ParseVert(send, doc)
        ELSE ParseIndices(send, doc)

\* The body of parse_mesh's loop for one line of the file.
ParseLine(line, doc) ==
    LET sep == Split(Strip(line), " ")
        send == Tail(sep)
    IN  IF sep[1] \notin VALID_VAR THEN Outcome("", doc)
        ELSE IF sep[1] = VERT_NAME THEN ParseVert(send, doc)
        ELSE IF sep[1] = UV_NAME THEN ParseUv(send, doc)
        ELSE ParseIndices(send, doc)

\* ------------------------------------------------------------ json.dumps

\* The JSON text as its tokens.  A number token carries the number; an int
\* and a float are different tokens, as "0" and "0.0" are different texts.
Punct(s) == [k |-> "punct", s |-> s, m |-> 0, e |-> 0]
Key(s) == [k |-> "string", s |-> s, m |-> 0, e |-> 0]
IntTok(n) == [k |-> "int", s |-> "", m |-> n, e |-> 0]
FloatTok(x) == [k |-> "float", s |-> "", m |-> x.m, e |-> x.e]

RECURSIVE JoinComma(_)
\* The token runs of a list's items, a comma between neighbours.
JoinComma(items) ==
    IF items = <<>> THEN <<>>
    ELSE IF Len(items) = 1 THEN items[1]
    ELSE items[1] \o <<Punct(",")>> \o JoinComma(Tail(items))

DumpsList(items) == <<Punct("[")>> \o JoinComma(items) \o <<Punct("]")>>

DumpsVertex(v) ==
    <<Punct("{"), Key("X"), Punct(":"), FloatTok(v.X), Punct(","),
      Key("Y"), Punct(":"), FloatTok(v.Y), Punct(","),
      Key("Z"), Punct(":"), FloatTok(v.Z), Punct("}")>>

DumpsUv(v) ==
    <<Punct("{"), Key("X"), Punct(":"), FloatTok(v.X), Punct(","),
      Key("Y"), Punct(":"), FloatTok(v.Y), Punct("}")>>

\* json.dumps(parsed): the members in the dict's insertion order.
Dumps(doc) ==
    <<Punct("{"), Key("Vertices"), Punct(":")>>
    \o DumpsList([i \in 1..Len(doc.Vertices) |-> DumpsVertex(doc.Vertices[i])])
    \o <<Punct(","), Key("Indices"), Punct(":")>>
    \o DumpsList([i \in 1..Len(doc.Indices) |-> <<IntTok(doc.Indices[i])>>])
    \o <<Punct(","), Key("UVs"), Punct(":")>>
    \o DumpsList([i \in 1..Len(doc.UVs) |-> DumpsUv(doc.UVs[i])])
    \o <<Punct(","), Key("PrimitiveType"), Punct(":"),
         IntTok(doc.PrimitiveType), Punct("}")>>

\* pathlib's PurePath.name: the part after the last "/".
PathName(path) ==
    LET parts == Split(path, "/") IN parts[Len(parts)]

\* pathlib's PurePath.suffixes: none for a name that ends with a dot; else
\* the name without its leading dots is split on ".", and every field but
\* the first is a suffix.
Suffixes(path) ==
    LET name == PathName(path)
        RECURSIVE LStripDots(_)
        LStripDots(s) ==
            IF s # <<>> /\ Head(s) = "." THEN LStripDots(Tail(s)) ELSE s
        fields == Split(LStripDots(name), ".")
    IN  IF name # <<>> /\ name[Len(name)] = "." THEN <<>>
        ELSE [i \in 1..(Len(fields) - 1) |-> <<".">> \o fields[i + 1]]

\* ------------------------------------------------------------------ inputs

\* The lines an input file is made of (each is read with its line end).
\* v 1.0 2.0 3.0
L_V ==
    <<"v", " ", "1", ".", "0", " ", "2", ".", "0", " ", "3", ".", "0">>

\* <tab>v -1 .5 2. x : a fourth, non-numeric token
L_V_EXT ==
    <<"\t", "v", " ", "-", "1", " ", ".", "5", " ", "2", ".", " ", "x">>

\* vt 0.5 1
L_VT ==
    <<"v", "t", " ", "0", ".", "5", " ", "1">>

\* vt 1 0 x : a third, non-numeric token
L_VT_EXT ==
    <<"v", "t", " ", "1", " ", "0", " ", "x">>

\* f 1/1/1 2/2/2 3/3/3
L_F ==
    <<"f", " ", "1", "/", "1", "/", "1", " ", "2", "/", "2", "/", "2", " ", "3", "/", "3", "/", "3">>

\* f 4 3//b 2/a 1 : four references, non-numeric sub-indices
L_F_QUAD ==
    <<"f", " ", "4", " ", "3", "/", "/", "b", " ", "2", "/", "a", " ", "1">>

\* f 0 -1 2 : the reference 0 and a negative reference
L_F_REL ==
    <<"f", " ", "0", " ", "-", "1", " ", "2">>

\* vn 0 0 1
L_VN ==
    <<"v", "n", " ", "0", " ", "0", " ", "1">>

\* # v a
L_COMMENT ==
    <<"#", " ", "v", " ", "a">>

\* the empty line
L_BLANK ==
    <<>>

\* v a 2.0 3.0
L_V_BAD ==
    <<"v", " ", "a", " ", "2", ".", "0", " ", "3", ".", "0">>

\* v 1 2
L_V_SHORT ==
    <<"v", " ", "1", " ", "2">>

\* v  1 2 3 : two spaces, so an empty first parameter
L_V_GAP ==
    <<"v", " ", " ", "1", " ", "2", " ", "3">>

\* vt 1 b
L_VT_BAD ==
    <<"v", "t", " ", "1", " ", "b">>

\* vt 1
L_VT_SHORT ==
    <<"v", "t", " ", "1">>

\* f 1 a 3
L_F_BAD ==
    <<"f", " ", "1", " ", "a", " ", "3">>

LinePool ==
    {L_V, L_V_EXT, L_VT, L_VT_EXT,
     L_F, L_F_QUAD, L_F_REL,
     L_VN, L_COMMENT, L_BLANK,
     L_V_BAD, L_V_SHORT, L_V_GAP, L_VT_BAD,
     L_VT_SHORT, L_F_BAD}

\* A line as the file iterator yields it, with its line end.
FileLine(l) == l \o <<"\n">>

\* The paths given on the command line.
\* sys.argv[0]
PROG ==
    <<"m", "c", ".", "p", "y">>

\* a.obj
P_OBJ ==
    <<"a", ".", "o", "b", "j">>

\* a.OBJ
P_UPPER ==
    <<"a", ".", "O", "B", "J">>

\* a.obj.txt
P_TXT ==
    <<"a", ".", "o", "b", "j", ".", "t", "x", "t">>

\* a
P_BARE ==
    <<"a">>

\* .obj
P_HIDDEN ==
    <<".", "o", "b", "j">>

\* a.obj.
P_DOT ==
    <<"a", ".", "o", "b", "j", ".">>

\* d.obj/a
P_DIR_ONLY ==
    <<"d", ".", "o", "b", "j", "/", "a">>

\* o.json
P_OUT ==
    <<"o", ".", "j", "s", "o", "n">>

\* The command lines tried: no, one and three arguments, and two arguments
\* with every input path above.
ArgvPool ==
    {<<PROG>>, <<PROG, P_OBJ>>, <<PROG, P_OBJ, P_OUT, P_OUT>>}
    \cup {<<PROG, p, P_OUT>> :
             p \in {P_OBJ, P_UPPER, P_TXT, P_BARE, P_HIDDEN,
                    P_DOT, P_DIR_ONLY}}

\* A file at the export path: none, or one left by an earlier run.
NoFile == [exists |-> FALSE, content |-> <<>>]
OldFile == [exists |-> TRUE, content |-> <<Key("old")>>]

\* A name not bound yet.
Unbound == [unbound |-> TRUE]

\* ------------------------------------------------------------------- state

VARIABLES
    argv,         \* sys.argv
    inputExists,  \* whether the input path names a readable file
    outFile,      \* the file at the export path
    outFile0,     \* the file at the export path when the run began
    pc,           \* the statement the run is at
    error,        \* the exception that ended the run ("" for none)
    mesh_path,
    export_path,
    parsed,       \* the document under construction
    json_p,
    stdout,       \* what the run has printed
    consumed,     \* the lines read from the input so far
    steps         \* the steps taken so far, in order

vars ==
    <<argv, inputExists, outFile, outFile0, pc, error, mesh_path, export_path,
      parsed, json_p, stdout, consumed, steps>>

Init ==
    /\ argv \in ArgvPool
    /\ inputExists \in BOOLEAN
    /\ outFile \in {NoFile, OldFile}
    /\ outFile0 = outFile
    /\ pc = "main"
    /\ error = ""
    /\ mesh_path = Unbound
    /\ export_path = Unbound
    /\ parsed = Unbound
    /\ json_p = Unbound
    /\ stdout = <<>>
    /\ consumed = <<>>
    /\ steps = <<>>

\* An uncaught exception ends the run.
Raise(exc) ==
    /\ pc' = "aborted"
    /\ error' = exc

\* The count checked as a lower bound only.
ArgcAtLeast(av) == Len(av) >= 3

\* if len(sys.argv) != 3: raise Exception(...)
ArgcOk(av) == Len(av) = 3

\* The driver's check of the argument count, and the two paths it binds.
CheckArgc ==
    /\ pc = "main"
    /\ steps' = Append(steps, "check_argc")
    /\ IF ArgcOk(argv)
       THEN /\ pc' = "suffix"
            /\ error' = error
            /\ mesh_path' = argv[2]
            /\ export_path' = argv[3]
       ELSE /\ Raise("Exception")
            /\ UNCHANGED <<mesh_path, export_path>>
    /\ UNCHANGED <<argv, inputExists, outFile, outFile0, parsed, json_p,
                   stdout, consumed>>

\* The suffix compared without regard to case.
SuffixCheckAnyCase(path) ==
    LET s == Suffixes(path)
    IN  IF s = <<>> THEN "IndexError"
        ELSE IF s[Len(s)] \notin {OBJ_SUFFIX, <<".", "O", "B", "J">>}
        THEN "NameError"
        ELSE ""

\* path.suffixes[-1] != ".obj": the exception raised ("" for none).  An
\* empty list of suffixes has no last element.
SuffixCheck(path) ==
    LET s == Suffixes(path)
    IN  IF s = <<>> THEN "IndexError"
        ELSE IF s[Len(s)] # OBJ_SUFFIX THEN "NameError"
        ELSE ""

\* The driver's check of the input path's suffix.
CheckSuffix ==
    /\ pc = "suffix"
    /\ steps' = Append(steps, "check_suffix")
    /\ IF SuffixCheck(mesh_path) = ""
       THEN pc' = "parse_mesh" /\ error' = error
       ELSE Raise(SuffixCheck(mesh_path))
    /\ UNCHANGED <<argv, inputExists, outFile, outFile0, mesh_path,
                   export_path, parsed, json_p, stdout, consumed>>

\* parse_mesh is entered and builds the empty document.
EnterParseMesh ==
    /\ pc = "parse_mesh"
    /\ steps' = Append(steps, "new_document")
    /\ parsed' = NewDoc
    /\ pc' = "open"
    /\ UNCHANGED <<argv, inputExists, outFile, outFile0, error, mesh_path,
                   export_path, json_p, stdout, consumed>>

\* open(path, "r")
OpenInput ==
    /\ pc = "open"
    /\ steps' = Append(steps, "open_input")
    /\ IF inputExists
       THEN pc' = "lines" /\ error' = error
       ELSE Raise("FileNotFoundError")
    /\ UNCHANGED <<argv, inputExists, outFile, outFile0, mesh_path,
                   export_path, parsed, json_p, stdout, consumed>>

\* One iteration of "for line in f": the next line is read and parsed.
ReadLine(line) ==
    /\ pc = "lines"
    /\ Len(consumed) < MaxLines
    /\ steps' = Append(steps, "read_line")
    /\ consumed' = Append(consumed, line)
    /\ LET r == ParseLine(line, parsed)
       IN  /\ parsed' = r.doc
           /\ IF r.exc = ""
              THEN pc' = "lines" /\ error' = error
              ELSE Raise(r.exc)
    /\ UNCHANGED <<argv, inputExists, outFile, outFile0, mesh_path,
                   export_path, json_p, stdout>>

\* The input is exhausted: the loop and the with block end.
EndOfFile ==
    /\ pc = "lines"
    /\ steps' = Append(steps, "end_of_file")
    /\ pc' = "print"
    /\ UNCHANGED <<argv, inputExists, outFile, outFile0, error, mesh_path,
                   export_path, parsed, json_p, stdout, consumed>>

\* The counts of indices and UVs printed under each other's label.
CountMessagesSwapped(doc) ==
    << <<"Parsed", Len(doc.Vertices), "vertices">>,
       <<"Parsed", Len(doc.UVs), "indices">>,
       <<"Parsed", Len(doc.Indices), "UVs">> >>

\* The three lines parse_mesh prints.
CountMessages(doc) ==
    << <<"Parsed", Len(doc.Vertices), "vertices">>,
       <<"Parsed", Len(doc.Indices), "indices">>,
       <<"Parsed", Len(doc.UVs), "UVs">> >>

\* parse_mesh prints the counts and returns the document.
PrintCounts ==
    /\ pc = "print"
    /\ steps' = Append(steps, "print_counts")
    /\ stdout' = stdout \o CountMessages(parsed)
    /\ pc' = "dumps"
    /\ UNCHANGED <<argv, inputExists, outFile, outFile0, error, mesh_path,
                   export_path, parsed, json_p, consumed>>

\* json_p = json.dumps(parsed)
DumpsJson ==
    /\ pc = "dumps"
    /\ steps' = Append(steps, "dumps")
    /\ json_p' = Dumps(parsed)
    /\ pc' = "export"
    /\ UNCHANGED <<argv, inputExists, outFile, outFile0, error, mesh_path,
                   export_path, parsed, stdout, consumed>>

\* What open(export_path, "w") and f.write(text) leave at the export path.
Written(text) == [exists |-> TRUE, content |-> text]

\* The export path is opened for writing and the text written.
Export ==
    /\ pc = "export"
    /\ steps' = Append(steps, "write_output")
    /\ outFile' = Written(json_p)
    /\ pc' = "confirm"
    /\ UNCHANGED <<argv, inputExists, outFile0, error, mesh_path,
                   export_path, parsed, json_p, stdout, consumed>>

\* print(f"Exported to file ...")
Confirm ==
    /\ pc = "confirm"
    /\ steps' = Append(steps, "print_exported")
    /\ stdout' = Append(stdout, <<"Exported to file", export_path>>)
    /\ pc' = "done"
    /\ UNCHANGED <<argv, inputExists, outFile, outFile0, error, mesh_path,
                   export_path, parsed, json_p, consumed>>

Next ==
    \/ CheckArgc
    \/ CheckSuffix
    \/ EnterParseMesh
    \/ OpenInput
    \/ \E line \in LinePool : ReadLine(FileLine(line))
    \/ EndOfFile
    \/ PrintCounts
    \/ DumpsJson
    \/ Export
    \/ Confirm

Spec == Init /\ [][Next]_vars

\* -------------------------------------------------- reading the output back

RECURSIVE LoadsValue(_, _), LoadsItems(_, _, _), LoadsMembers(_, _, _)
\* The JSON value that starts at token i, and the position after it: an
\* object is a function of its keys, an array a sequence, a float m, e.
LoadsValue(t, i) ==
    IF t[i].k = "int" THEN [val |-> t[i].m, next |-> i + 1]
    ELSE IF t[i].k = "float"
    THEN [val |-> [m |-> t[i].m, e |-> t[i].e], next |-> i + 1]
    ELSE IF t[i] = Punct("[")
    THEN IF t[i + 1] = Punct("]") THEN [val |-> <<>>, next |-> i + 2]
         ELSE LoadsItems(t, i + 1, <<>>)
    ELSE IF t[i + 1] = Punct("}") THEN [val |-> <<>>, next |-> i + 2]
         ELSE LoadsMembers(t, i + 1, <<>>)

LoadsItems(t, i, acc) ==
    LET r == LoadsValue(t, i)
    IN  IF t[r.next] = Punct(",")
        THEN LoadsItems(t, r.next + 1, Append(acc, r.val))
        ELSE [val |-> Append(acc, r.val), next |-> r.next + 1]

LoadsMembers(t, i, acc) ==
    LET r == LoadsValue(t, i + 2)
        obj == (t[i].s :> r.val) @@ acc
    IN  IF t[r.next] = Punct(",")
        THEN LoadsMembers(t, r.next + 1, obj)
        ELSE [val |-> obj, next |-> r.next + 1]

\* json.loads of a text that is one JSON value.
Loads(t) == LoadsValue(t, 1).val

\* ------------------------------------------------ vocabulary of the claims

Range(s) == {s[i] : i \in DOMAIN s}

IsPrefix(s, t) == Len(s) <= Len(t) /\ SubSeq(t, 1, Len(s)) = s

Last(s) == s[Len(s)]

Front(s) == SubSeq(s, 1, Len(s) - 1)

\* The tokens of a line: surrounding whitespace stripped, split on single
\* spaces.  The first is the line's marker, the rest its parameters.
Tokens(line) == Split(Strip(line), " ")
Marker(line) == Tokens(line)[1]
Params(line) == Tail(Tokens(line))

\* A step that reads a line, and the line it reads.
ReadStep == Len(consumed') = Len(consumed) + 1
LineRead == Last(consumed')

\* The run was ended by the line read last.
FailedOnLine ==
    pc = "aborted" /\ steps # <<>> /\ Last(steps) = "read_line"

\* The lines parsed without an exception.
ParsedLines == IF FailedOnLine THEN Front(consumed) ELSE consumed

\* The output-write step has been taken.
Wrote == "write_output" \in Range(steps)

\* The filesystem is as the run found it, and the input was never opened.
NothingTouched ==
    /\ "open_input" \notin Range(steps)
    /\ consumed = <<>>
    /\ ~Wrote
    /\ outFile = outFile0

RECURSIVE BeforeSlash(_)
\* The characters of a reference before its first "/".
BeforeSlash(tok) ==
    IF tok = <<>> \/ Head(tok) = "/" THEN <<>>
    ELSE <<Head(tok)>> \o BeforeSlash(Tail(tok))

IsFloat(tok) == ParseFloat(tok).ok
IsInt(tok) == ParseInt(tok).ok

\* A numeric conversion fails on the line: a non-float among the first
\* three (two) parameters of a v (vt) line that are there, or a reference
\* of an f line whose part before the "/" is no integer.
ConversionFails(line) ==
    LET t == Tokens(line)
        p == Tail(t)
        BadFloat(n) == \E i \in 1..n : i <= Len(p) /\ ~IsFloat(p[i])
    IN  \/ t[1] = <<"v">> /\ BadFloat(3)
        \/ t[1] = <<"v", "t">> /\ BadFloat(2)
        \/ /\ t[1] = <<"f">>
           /\ \E i \in 1..Len(p) : ~IsInt(BeforeSlash(p[i]))

\* ------------------------------------------------------------------ claims

\* C1: once a line on which a numeric conversion fails has been read, the
\* run is aborted, the output-write step has not been taken, no text has
\* been serialised, and the file at the export path is as the run found it
\* (absent, or with its previous content).
C1_ParseFailureWritesNothing ==
    (consumed # <<>> /\ ConversionFails(Last(consumed))) =>
        /\ pc = "aborted"
        /\ error = "ValueError"
        /\ ~Wrote
        /\ json_p = Unbound
        /\ outFile = outFile0

\* A conversion fails on the third line, after a face line was parsed, with
\* a file already at the export path.
C1_Witness ==
    /\ pc = "aborted"
    /\ error = "ValueError"
    /\ Len(consumed) = 3
    /\ parsed.Indices # <<>>
    /\ outFile0 = OldFile
    /\ outFile = OldFile

\* C2: with any number of arguments other than two (sys.argv of a length
\* other than 3) the run goes from its first statement only to the aborted
\* state, with a usage error, and touches nothing: the input is never
\* opened or read, the output never written.
C2_UsageErrorTouchesNothing ==
    Len(argv) # 3 =>
        /\ pc \in {"main", "aborted"}
        /\ pc = "aborted" => error = "Exception"
        /\ Range(steps) \subseteq {"check_argc"}
        /\ NothingTouched

\* Three arguments: aborted, with the earlier output still in place.
C2_Witness ==
    /\ Len(argv) = 4
    /\ pc = "aborted"
    /\ error = "Exception"
    /\ outFile = OldFile

\* The final suffix of the input path is exactly ".obj".
HasObjSuffix(path) ==
    LET s == Suffixes(path) IN s # <<>> /\ Last(s) = OBJ_SUFFIX

\* C3: with two arguments, parse_mesh is entered only if the final suffix
\* of the input path is exactly ".obj", and the suffix check passes whenever
\* it is; with any other input path the run aborts at the suffix check
\* having touched nothing.
C3_ParsesIffObjSuffix ==
    Len(argv) = 3 =>
        LET obj == HasObjSuffix(argv[2])
        IN  /\ "new_document" \in Range(steps) => obj
            /\ (obj /\ "check_suffix" \in Range(steps)) =>
                   (pc = "parse_mesh" \/ "new_document" \in Range(steps))
            /\ ~obj =>
                   /\ pc \in {"main", "suffix", "aborted"}
                   /\ pc = "aborted" => error \in {"NameError", "IndexError"}
                   /\ parsed = Unbound
                   /\ NothingTouched

\* The input path a.OBJ: aborted at the suffix check.
C3_Witness ==
    /\ Len(argv) = 3
    /\ argv[2] = P_UPPER
    /\ pc = "aborted"
    /\ error = "NameError"
    /\ Last(steps) = "check_suffix"

\* C8: PrimitiveType is 4 in the document from its creation on, and in the
\* document read back from every output the run wrote.
C8_PrimitiveTypeIsFour ==
    /\ parsed # Unbound => parsed.PrimitiveType = 4
    /\ json_p # Unbound => Loads(json_p).PrimitiveType = 4
    /\ Wrote => Loads(outFile.content).PrimitiveType = 4

\* A finished run whose only face has four references.
C8_Witness ==
    /\ pc = "done"
    /\ consumed = <<FileLine(L_F_QUAD)>>
    /\ Len(parsed.Indices) = 4
    /\ Loads(outFile.content).PrimitiveType = 4

\* The steps of a successful run that reads n lines, in order.
SuccessfulRun(n) ==
    <<"check_argc", "check_suffix", "new_document", "open_input">>
    \o [i \in 1..n |-> "read_line"]
    \o <<"end_of_file", "print_counts", "dumps", "write_output",
         "print_exported">>

\* C10: a run that has not aborted has taken a prefix of the steps of a
\* successful run, in their order; before the end of the input nothing is
\* printed or written; a finished run has taken them all (so it wrote once,
\* after the last line, between the counts and the confirmation), the
\* counts it printed are the lengths of Vertices, Indices and UVs of the
\* document read back from the output, and that document is the one in
\* memory.
C10_SuccessfulRunOrder ==
    /\ pc # "aborted" => IsPrefix(steps, SuccessfulRun(Len(consumed)))
    /\ pc \in {"main", "suffix", "parse_mesh", "open", "lines"} =>
           stdout = <<>> /\ outFile = outFile0
    /\ pc = "done" =>
           /\ steps = SuccessfulRun(Len(consumed))
           /\ Len(stdout) = 4
           /\ LET written == Loads(outFile.content)
              IN  /\ written = parsed
                  /\ stdout[1] = <<"Parsed", Len(written.Vertices), "vertices">>
                  /\ stdout[2] = <<"Parsed", Len(written.Indices), "indices">>
                  /\ stdout[3] = <<"Parsed", Len(written.UVs), "UVs">>
           /\ stdout[4][1] = "Exported to file"

\* A finished run over a vertex, a UV and a face line, in a directory that
\* held an earlier output.
C10_Witness ==
    /\ pc = "done"
    /\ outFile0 = OldFile
    /\ Len(parsed.Vertices) = 1
    /\ Len(parsed.UVs) = 1
    /\ Len(parsed.Indices) = 3
    /\ Loads(outFile.content) = parsed

\* The entries a face line stands for: per reference, in order, the integer
\* before its first "/", less one.
FaceIndices(line) ==
    LET p == Params(line)
    IN  [k \in 1..Len(p) |-> ParseInt(BeforeSlash(p[k])).val - 1]

\* Every reference of the line has an integer before its first "/".
IntegerRefs(line) ==
    LET p == Params(line)
    IN  \A k \in 1..Len(p) : IsInt(BeforeSlash(p[k]))

RECURSIVE ExpectedIndices(_)
\* The entries of the face lines among the given lines, in file order.
ExpectedIndices(lines) ==
    IF lines = <<>> THEN <<>>
    ELSE (IF Marker(Head(lines)) = <<"f">>
          THEN FaceIndices(Head(lines)) ELSE <<>>)
         \o ExpectedIndices(Tail(lines))

\* C4: reading a face line whose references t1..tn have integers before
\* their first "/" appends exactly the n entries (that integer minus 1), in
\* token order, whatever follows the "/" and however many references there
\* are, and changes nothing else of the document; so, while the run has
\* not aborted, Indices is the concatenation of the face lines' entries in
\* file order.
C4_FaceLineAppendsItsReferences ==
    /\ []((parsed # Unbound /\ pc # "aborted") =>
             parsed.Indices = ExpectedIndices(consumed))
    /\ [][(ReadStep /\ Marker(LineRead) = <<"f">> /\ IntegerRefs(LineRead)) =>
             /\ pc' = "lines"
             /\ parsed' = [parsed EXCEPT
                              !.Indices = @ \o FaceIndices(LineRead)]]_vars

\* A triangle with uv and normal sub-indices, then a quad with non-numeric
\* sub-indices.
C4_Witness ==
    /\ pc = "lines"
    /\ consumed = <<FileLine(L_F), FileLine(L_F_QUAD)>>
    /\ parsed.Indices = <<0, 1, 2, 3, 2, 1, 0>>

\* The elements of a sequence are all non-negative.
NonNegative(seq) == \A i \in 1..Len(seq) : seq[i] >= 0

\* Every integer vertex reference of the face lines is 1 or more.
PositiveRefs(lines) ==
    \A n \in 1..Len(lines) :
        LET t == Tokens(lines[n])
        IN  t[1] = <<"f">> =>
                \A k \in 2..Len(t) :
                    LET r == ParseInt(BeforeSlash(t[k]))
                    IN  r.ok => r.val >= 1

\* C5 as stated: every element of Indices is non-negative, in the document
\* in memory and in the written one, whatever integer references the face
\* lines carry.
C5_IndicesNonNegative ==
    /\ parsed # Unbound => NonNegative(parsed.Indices)
    /\ Wrote => NonNegative(Loads(outFile.content).Indices)

\* C5 as amended: every element of Indices is non-negative, in memory and
\* in the written document, when every integer reference of the face lines
\* read is 1 or more; when the lines parsed carry a reference that is 0 or
\* negative, Indices holds a negative element.
C5_IndicesNonNegativeForPositiveRefs ==
    /\ (parsed # Unbound /\ PositiveRefs(consumed)) =>
           /\ NonNegative(parsed.Indices)
           /\ Wrote => NonNegative(Loads(outFile.content).Indices)
    /\ (parsed # Unbound /\ ~PositiveRefs(ParsedLines)) =>
           ~NonNegative(parsed.Indices)

\* A written document built from face lines with positive references.
C5_Witness ==
    /\ pc = "done"
    /\ consumed = <<FileLine(L_F_QUAD), FileLine(L_V), FileLine(L_F)>>
    /\ Loads(outFile.content).Indices = <<3, 2, 1, 0, 0, 1, 2>>

\* C6: reading a line whose first token is none of v, vt, f leaves the
\* document as it was and does not abort the run.
C6_UnrecognisedLineSkipped ==
    [][(ReadStep /\ Marker(LineRead) \notin {<<"v">>, <<"v", "t">>, <<"f">>}) =>
          /\ parsed' = parsed
          /\ pc' = "lines"
          /\ error' = ""]_vars

\* A vertex, then a comment whose other tokens look like a bad vertex
\* line, then a normal: the run goes on with the one vertex.
C6_Witness ==
    /\ pc = "lines"
    /\ consumed = <<FileLine(L_V), FileLine(L_COMMENT), FileLine(L_VN)>>
    /\ Len(parsed.Vertices) = 1
    /\ parsed.UVs = <<>>
    /\ parsed.Indices = <<>>

\* The vertex (UV) a v (vt) line stands for: its first three (two)
\* parameters, converted, in order.
VertexOf(line) ==
    LET p == Params(line)
    IN  [X |-> ParseFloat(p[1]).val, Y |-> ParseFloat(p[2]).val,
         Z |-> ParseFloat(p[3]).val]

UvOf(line) ==
    LET p == Params(line)
    IN  [X |-> ParseFloat(p[1]).val, Y |-> ParseFloat(p[2]).val]

RECURSIVE ExpectedVertices(_)
\* The vertices of the v lines among the given lines, in file order.
ExpectedVertices(lines) ==
    IF lines = <<>> THEN <<>>
    ELSE (IF Marker(Head(lines)) = <<"v">>
          THEN <<VertexOf(Head(lines))>> ELSE <<>>)
         \o ExpectedVertices(Tail(lines))

\* C7: Vertices holds, in file order, exactly the vertices of the v lines
\* parsed so far, whatever lines stand between them; no step changes,
\* moves or removes an entry of Vertices, UVs or Indices; a v line changes
\* only Vertices, a vt line only UVs, an f line only Indices.
C7_VerticesFollowFileOrder ==
    /\ [](parsed # Unbound =>
             parsed.Vertices = ExpectedVertices(ParsedLines))
    /\ [][parsed # Unbound =>
             /\ IsPrefix(parsed.Vertices, parsed'.Vertices)
             /\ IsPrefix(parsed.UVs, parsed'.UVs)
             /\ IsPrefix(parsed.Indices, parsed'.Indices)
             /\ parsed'.PrimitiveType = parsed.PrimitiveType
             /\ (ReadStep /\ Marker(LineRead) = <<"v">>) =>
                    parsed'.UVs = parsed.UVs /\ parsed'.Indices = parsed.Indices
             /\ (ReadStep /\ Marker(LineRead) = <<"v", "t">>) =>
                    /\ parsed'.Vertices = parsed.Vertices
                    /\ parsed'.Indices = parsed.Indices
             /\ (ReadStep /\ Marker(LineRead) = <<"f">>) =>
                    /\ parsed'.Vertices = parsed.Vertices
                    /\ parsed'.UVs = parsed.UVs]_vars

\* Two v lines with a vt line between them.
C7_Witness ==
    /\ pc = "lines"
    /\ consumed = <<FileLine(L_V), FileLine(L_VT), FileLine(L_V_EXT)>>
    /\ Len(parsed.Vertices) = 2
    /\ parsed.Vertices[1] = VertexOf(L_V)
    /\ parsed.Vertices[2] = VertexOf(L_V_EXT)
    /\ Len(parsed.UVs) = 1

\* The first n parameters are there and are floats.
ComponentsOk(line, n) ==
    LET p == Params(line)
    IN  Len(p) >= n /\ \A i \in 1..n : IsFloat(p[i])

\* C9: reading a v line whose first three parameters are floats appends
\* the one vertex made of them, whatever tokens follow, and the run goes
\* on; reading a v line with fewer than three parameters or a non-float
\* among the first three aborts the run and leaves the document as it was.
\* The same for a vt line and its first two parameters.
C9_ComponentsTakenPositionally ==
    [][ReadStep =>
          /\ Marker(LineRead) = <<"v">> =>
                 IF ComponentsOk(LineRead, 3)
                 THEN /\ pc' = "lines"
                      /\ parsed' = [parsed EXCEPT !.Vertices =
                                        Append(@, VertexOf(LineRead))]
                 ELSE /\ pc' = "aborted"
                      /\ error' \in {"ValueError", "IndexError"}
                      /\ parsed' = parsed
          /\ Marker(LineRead) = <<"v", "t">> =>
                 IF ComponentsOk(LineRead, 2)
                 THEN /\ pc' = "lines"
                      /\ parsed' = [parsed EXCEPT !.UVs =
                                        Append(@, UvOf(LineRead))]
                 ELSE /\ pc' = "aborted"
                      /\ error' \in {"ValueError", "IndexError"}
                      /\ parsed' = parsed]_vars

\* A v line with a non-numeric fourth token and a vt line with a
\* non-numeric third one are taken; a v line with an empty first parameter
\* then aborts the run.
C9_Witness ==
    /\ pc = "aborted"
    /\ error = "ValueError"
    /\ consumed = <<FileLine(L_V_EXT), FileLine(L_VT_EXT), FileLine(L_V_GAP)>>
    /\ parsed.Vertices =
           <<[X |-> [m |-> -1, e |-> 0], Y |-> [m |-> 5, e |-> 1],
              Z |-> [m |-> 2, e |-> 0]]>>
    /\ parsed.UVs = <<[X |-> [m |-> 1, e |-> 0], Y |-> [m |-> 0, e |-> 0]]>>

====
